---- MODULE Spec2Model ----
(***************************************************************************)
(* CSVVisualizer (src/unnamed/part_000): the React component that parses   *)
(* an uploaded CSV, profiles its columns (analyzeData), plans charts       *)
(* (getBestChartsForData) and builds their series (getChartData,           *)
(* getLineChartData, getComparisonData).                                   *)
(*                                                                         *)
(* Representation of JavaScript values                                     *)
(*   string   a sequence of one-character strings, <<"4","2","a">>         *)
(*   number   [nan |-> BOOLEAN, v |-> Int]; the cells of the model are     *)
(*            integers, so every number the code computes is a rational    *)
(*            that toFixed turns into an integer count of 10^-digits       *)
(*   cell     [t |-> "null" | "undefined" | "number" | "string", n, s]     *)
(*   object   [keys |-> insertion order of the own keys, val |-> values];  *)
(*            Object.keys / Object.entries enumerate array-index keys      *)
(*            first, ascending, then the other keys in insertion order     *)
(* The strings of the cells are over digits, " " and the letters a, b, c,   *)
(* k, so every numeric string denotes an integer.                          *)
(***************************************************************************)
EXTENDS Integers, Sequences, FiniteSets, TLC

VARIABLES file, data, headers, analysis, activeView, aiInsights, loading,
          processingData, hoverInsight, insightLoading, pc, requests

vars == <<file, data, headers, analysis, activeView, aiInsights, loading,
          processingData, hoverInsight, insightLoading, pc, requests>>

(***************************************************************************)
(* Generic sequence helpers                                                *)
(***************************************************************************)
Range(s) == {s[i] : i \in 1..Len(s)}

Min2(a, b) == IF a <= b THEN a ELSE b

\* Array.prototype.slice(from, to) with 0-based from, exclusive to
Slice(s, from, to) == SubSeq(s, from + 1, Min2(to, Len(s)))

\* the sequence f as a tuple, so that each element is computed once
Tuple(f) == SubSeq(f, 1, Len(f))

\* F(v), with v computed once
Bind(v, F(_)) == CHOOSE r \in {F(t) : t \in {v}} : TRUE

\* s[1..n] mapped by F(element, position)
MapSeq(s, F(_, _)) ==
  Bind(s, LAMBDA t : Tuple([i \in 1..Len(t) |-> F(t[i], i)]))

\* the element of rank p at position p
PlaceByRank(s, rank) ==
  Bind(rank, LAMBDA r :
    MapSeq(s, LAMBDA e, p : s[CHOOSE i \in 1..Len(r) : r[i] = p]))

\* Array.prototype.sort(compare), which is stable: t[j] comes before t[i]
\* iff compare puts it first, or puts neither first and j < i.  Written by
\* ranks, since the rows of a data set outnumber the depth of recursion the
\* checker evaluates.
RankOf(t, Before(_, _)) ==
  LET Precedes(j, i) ==
        Before(t[j], t[i]) \/ (~Before(t[i], t[j]) /\ j < i)
  IN Tuple([i \in 1..Len(t) |->
              1 + Cardinality({j \in 1..Len(t) : j # i /\ Precedes(j, i)})])

StableSort(s, Before(_, _)) ==
  Bind(s, LAMBDA t : PlaceByRank(t, RankOf(t, Before)))

(***************************************************************************)
(* JavaScript strings and numbers                                          *)
(***************************************************************************)
DigitChars == <<"0", "1", "2", "3", "4", "5", "6", "7", "8", "9">>

IsDigit(c) == \E i \in 1..10 : DigitChars[i] = c

DigitVal(c) == (CHOOSE i \in 1..10 : DigitChars[i] = c) - 1

IsWhiteSpace(c) == c = " "

NaN == [nan |-> TRUE, v |-> 0]

Num(n) == [nan |-> FALSE, v |-> n]

RECURSIVE SkipWhite(_)
SkipWhite(s) ==
  IF s # <<>> /\ IsWhiteSpace(Head(s)) THEN SkipWhite(Tail(s)) ELSE s

RECURSIVE TrimEnd(_)
TrimEnd(s) ==
  IF s # <<>> /\ IsWhiteSpace(s[Len(s)])
  THEN TrimEnd(SubSeq(s, 1, Len(s) - 1))
  ELSE s

RECURSIVE DigitPrefixLen(_)
DigitPrefixLen(s) ==
  IF s # <<>> /\ IsDigit(Head(s)) THEN 1 + DigitPrefixLen(Tail(s)) ELSE 0

RECURSIVE DigitsValue(_)
DigitsValue(s) ==
  IF s = <<>> THEN 0
  ELSE 10 * DigitsValue(SubSeq(s, 1, Len(s) - 1)) + DigitVal(s[Len(s)])

IsSign(c) == c = "-" \/ c = "+"

\* parseFloat(string): leading white space skipped, optional sign, then the
\* longest prefix that is a decimal literal; NaN when there is none
parseFloatStr(s) ==
  LET t == SkipWhite(s)
      signed == t # <<>> /\ IsSign(Head(t))
      u == IF signed THEN Tail(t) ELSE t
      k == DigitPrefixLen(u)
      sgn == IF signed /\ Head(t) = "-" THEN -1 ELSE 1
  IN IF k = 0 THEN NaN ELSE Num(sgn * DigitsValue(SubSeq(u, 1, k)))

\* Number(string): white space trimmed, the empty string is 0, otherwise the
\* whole rest must be a numeric literal
StringToNumber(s) ==
  LET t == TrimEnd(SkipWhite(s))
      signed == t # <<>> /\ IsSign(Head(t))
      u == IF signed THEN Tail(t) ELSE t
      sgn == IF signed /\ Head(t) = "-" THEN -1 ELSE 1
  IN IF t = <<>> THEN Num(0)
     ELSE IF u # <<>> /\ DigitPrefixLen(u) = Len(u)
          THEN Num(sgn * DigitsValue(u))
          ELSE NaN

RECURSIVE Digits(_)
Digits(n) ==
  IF n < 10 THEN <<DigitChars[n + 1]>>
  ELSE Digits(n \div 10) \o <<DigitChars[(n % 10) + 1]>>

\* Number.prototype.toString of an integer
NumberToString(n) == IF n < 0 THEN <<"-">> \o Digits(-n) ELSE Digits(n)

(***************************************************************************)
(* Cells                                                                   *)
(***************************************************************************)
Null == [t |-> "null", n |-> 0, s |-> <<>>]

Undefined == [t |-> "undefined", n |-> 0, s |-> <<>>]

NumCell(n) == [t |-> "number", n |-> n, s |-> <<>>]

StrCell(s) == [t |-> "string", n |-> 0, s |-> s]

EmptyString == StrCell(<<>>)

\* ToNumber(v), the coercion behind isNaN(v) and isFinite(v)
ToNumber(v) ==
  CASE v.t = "null" -> Num(0)
    [] v.t = "undefined" -> NaN
    [] v.t = "number" -> Num(v.n)
    [] v.t = "string" -> StringToNumber(v.s)

isNaN(v) == ToNumber(v).nan

\* the model has no infinite number
isFinite(v) == ~ToNumber(v).nan

\* String(v)
String(v) ==
  CASE v.t = "null" -> <<"n", "u", "l", "l">>
    [] v.t = "undefined" ->
         <<"u", "n", "d", "e", "f", "i", "n", "e", "d">>
    [] v.t = "number" -> NumberToString(v.n)
    [] v.t = "string" -> v.s

\* parseFloat(v): v is converted to a string first
parseFloat(v) == parseFloatStr(String(v))

\* typeof val === "number" ? val : parseFloat(val)
Coerce(v) == IF v.t = "number" THEN Num(v.n) ELSE parseFloat(v)

\* v !== null && v !== "" && v !== undefined
NonEmpty(v) == v # Null /\ v # EmptyString /\ v # Undefined

(***************************************************************************)
(* Objects: own keys in insertion order, enumerated in the engine's order  *)
(***************************************************************************)
\* a canonical array index: decimal digits without a leading zero, below
\* 2^32 - 1 (every key of up to 9 digits is; the model has no longer one)
IsArrayIndex(k) ==
  /\ k # <<>>
  /\ DigitPrefixLen(k) = Len(k)
  /\ (Len(k) = 1 \/ Head(k) # "0")
  /\ Len(k) <= 9

\* integer keys in ascending numeric order
SortIndexKeys(ks) ==
  StableSort(ks, LAMBDA a, b : DigitsValue(a) < DigitsValue(b))

\* OrdinaryOwnPropertyKeys: integer keys ascending, then strings as inserted
OwnPropertyKeys(ins) ==
  SortIndexKeys(SelectSeq(ins, IsArrayIndex))
    \o SelectSeq(ins, LAMBDA k : ~IsArrayIndex(k))

EmptyObject == [keys |-> <<>>, val |-> <<>>]

HasKey(o, k) == k \in Range(o.keys)

\* o[k] = v
ObjSet(o, k, v) ==
  [keys |-> IF HasKey(o, k) THEN o.keys ELSE Append(o.keys, k),
   val |-> (k :> v) @@ o.val]

ObjectKeys(o) == OwnPropertyKeys(o.keys)

ObjectEntries(o) ==
  Bind(o, LAMBDA t :
    MapSeq(ObjectKeys(t), LAMBDA k, i : [key |-> k, count |-> t.val[k]]))

(***************************************************************************)
(* Rationals and Number.prototype.toFixed                                  *)
(***************************************************************************)
RECURSIVE Pow10(_)
Pow10(d) == IF d = 0 THEN 1 ELSE 10 * Pow10(d - 1)

\* a / b (b > 0) rounded to the nearest integer, halves away from zero
RoundDiv(a, b) ==
  IF a >= 0 THEN (2 * a + b) \div (2 * b)
  ELSE -((2 * (-a) + b) \div (2 * b))

\* (num / den).toFixed(digits), as the count of 10^-digits it denotes.  For
\* the integers of the model the binary quotient rounds as the exact one
\* unless den is a multiple of 40, a length no column of the model has.
toFixed(num, den, digits) ==
  IF num.nan THEN NaN ELSE Num(RoundDiv(num.v * Pow10(digits), den))

Add(a, b) == IF a.nan \/ b.nan THEN NaN ELSE Num(a.v + b.v)

(***************************************************************************)
(* analyzeData (lines 84-143)                                              *)
(***************************************************************************)
\* csvData.map((row) => row[header]).filter(non-empty)
ColumnValues(csvData, header) ==
  SelectSeq(MapSeq(csvData, LAMBDA row, i : row[header]), NonEmpty)

\* the filter predicate of numericValues
IsNumericValue(v) ==
  \/ (~isNaN(v) /\ v # EmptyString /\ v.t # "string")
  \/ (v.t = "string" /\ ~parseFloat(v).nan /\ isFinite(v))

NumericValues(values) == SelectSeq(values, IsNumericValue)

\* the threshold taken as "at least half"
IsNumericColumnAtLeastHalf(values, numericValues) ==
  /\ 2 * Len(numericValues) >= Len(values)
  /\ Len(numericValues) > 0

\* numericValues.length > values.length * 0.5 && numericValues.length > 0
IsNumericColumn(values, numericValues) ==
  /\ 2 * Len(numericValues) > Len(values)
  /\ Len(numericValues) > 0

\* a - b < 0 in the comparator of sort((a, b) => a - b)
NumLess(a, b) == ~a.nan /\ ~b.nan /\ a.v < b.v

\* [...numbers].sort((a, b) => a - b)
SortNumbers(numbers) == StableSort(numbers, NumLess)

\* numbers.reduce((a, b) => a + b, 0) over numbers[lo..hi]; the additions
\* are of integers, so they are grouped by halves to keep the evaluation
\* shallow
RECURSIVE SumRange(_, _, _)
SumRange(numbers, lo, hi) ==
  IF lo > hi THEN Num(0)
  ELSE IF lo = hi THEN Add(Num(0), numbers[lo])
  ELSE LET mid == (lo + hi) \div 2
       IN Add(SumRange(numbers, lo, mid), SumRange(numbers, mid + 1, hi))

SumNumbers(numbers) == SumRange(numbers, 1, Len(numbers))

\* Math.min(...numbers), Math.max(...numbers)
MathMin(numbers) ==
  IF \E i \in 1..Len(numbers) : numbers[i].nan THEN NaN
  ELSE Num(CHOOSE m \in {numbers[i].v : i \in 1..Len(numbers)} :
             \A i \in 1..Len(numbers) : m <= numbers[i].v)

MathMax(numbers) ==
  IF \E i \in 1..Len(numbers) : numbers[i].nan THEN NaN
  ELSE Num(CHOOSE m \in {numbers[i].v : i \in 1..Len(numbers)} :
             \A i \in 1..Len(numbers) : m >= numbers[i].v)

\* the upper of the two central elements when the length is even
MedianUpperCentral(sortedNumbers) ==
  [num |-> sortedNumbers[Len(sortedNumbers) \div 2 + 1], den |-> 1]

\* lines 107-111 (mid counts from 0 there), as the fraction num / den
MedianOfSorted(sortedNumbers) ==
  LET mid == Len(sortedNumbers) \div 2
  IN IF Len(sortedNumbers) % 2 = 0
     THEN [num |-> Add(sortedNumbers[mid], sortedNumbers[mid + 1]), den |-> 2]
     ELSE [num |-> sortedNumbers[mid + 1], den |-> 1]

Median(numbers) == MedianOfSorted(SortNumbers(numbers))

\* the sum divided by one more than the count
MeanOffByOne(numbers) ==
  [num |-> SumNumbers(numbers), den |-> Len(numbers) + 1]

\* the mean of line 114, as the fraction num / den
Mean(numbers) == [num |-> SumNumbers(numbers), den |-> Len(numbers)]

\* lines 102-120: the profile of a numeric column, each statistic in 1/100
FixedFraction(f, digits) == toFixed(f.num, f.den, digits)

StatsOf(numbers) ==
  [mean |-> FixedFraction(Mean(numbers), 2),
   median |-> FixedFraction(Median(numbers), 2),
   min |-> toFixed(MathMin(numbers), 1, 2),
   max |-> toFixed(MathMax(numbers), 1, 2),
   sum |-> toFixed(SumNumbers(numbers), 1, 2),
   count |-> Len(numbers)]

NumericProfile(numericValues) ==
  Bind(MapSeq(numericValues, LAMBDA v, i : Coerce(v)), StatsOf)

\* values.forEach: freq[String(v)] = (freq[String(v)] || 0) + 1.  After the
\* loop a key stands where its first value stood and holds the number of
\* values it is the string of.
TallyKeys(key) ==
  [keys |-> MapSeq(SelectSeq([i \in 1..Len(key) |-> i],
                     LAMBDA i : \A j \in 1..(i - 1) : key[j] # key[i]),
                   LAMBDA i, p : key[i]),
   val |-> [k \in Range(key) |->
              Cardinality({i \in 1..Len(key) : key[i] = k})]]

Tally(values) ==
  Bind(MapSeq(values, LAMBDA v, i : String(v)), TallyKeys)

\* entries.sort((a, b) => b[1] - a[1])
SortByCountDesc(entries) ==
  StableSort(entries, LAMBDA a, b : a.count > b.count)

\* sortedFreq[0], which is undefined for an empty array
FirstEntry(sortedFreq) ==
  IF sortedFreq = <<>> THEN [defined |-> FALSE, key |-> <<>>, count |-> 0]
  ELSE [defined |-> TRUE, key |-> sortedFreq[1].key,
        count |-> sortedFreq[1].count]

\* lines 122-133: the profile of a categorical column
FreqProfile(freq, total) ==
  [unique |-> Len(ObjectKeys(freq)),
   mostCommon |-> FirstEntry(SortByCountDesc(ObjectEntries(freq))),
   distribution |-> freq,
   total |-> total]

CategoricalProfile(values) ==
  Bind(Tally(values), LAMBDA freq : FreqProfile(freq, Len(values)))

\* every column given a categorical profile, the numeric ones a numeric
\* profile besides
RECURSIVE AnalyzeColumnsBoth(_, _, _)
AnalyzeColumnsBoth(csvData, cols, k) ==
  IF k = 0 THEN [numeric |-> EmptyObject, categorical |-> EmptyObject]
  ELSE LET acc == AnalyzeColumnsBoth(csvData, cols, k - 1)
           header == cols[k]
           values == ColumnValues(csvData, header)
           numericValues == NumericValues(values)
           both == [acc EXCEPT !.categorical =
                      ObjSet(@, header, CategoricalProfile(values))]
       IN IF IsNumericColumn(values, numericValues)
          THEN [both EXCEPT !.numeric =
                  ObjSet(@, header, NumericProfile(numericValues))]
          ELSE both

\* cols.forEach over the first k column names
RECURSIVE AnalyzeColumns(_, _, _)
AnalyzeColumns(csvData, cols, k) ==
  IF k = 0 THEN [numeric |-> EmptyObject, categorical |-> EmptyObject]
  ELSE LET acc == AnalyzeColumns(csvData, cols, k - 1)
           header == cols[k]
           values == ColumnValues(csvData, header)
           numericValues == NumericValues(values)
       IN IF IsNumericColumn(values, numericValues)
          THEN [acc EXCEPT !.numeric =
                  ObjSet(@, header, NumericProfile(numericValues))]
          ELSE [acc EXCEPT !.categorical =
                  ObjSet(@, header, CategoricalProfile(values))]

analyzeData(csvData, cols) ==
  LET columns == AnalyzeColumns(csvData, cols, Len(cols))
  IN [isNull |-> FALSE,
      totalRows |-> Len(csvData),
      totalColumns |-> Len(cols),
      numeric |-> columns.numeric,
      categorical |-> columns.categorical]

\* useState(null) of analysis
NullAnalysis ==
  [isNull |-> TRUE, totalRows |-> 0, totalColumns |-> 0,
   numeric |-> EmptyObject, categorical |-> EmptyObject]

(***************************************************************************)
(* getChartData (lines 229-255)                                            *)
(***************************************************************************)
\* String(name).length > 20 ? String(name).substring(0, 20) + "..." : name
TruncateLabel(name) ==
  IF Len(name) > 20 THEN SubSeq(name, 1, 20) \o <<".", ".", ".">> ELSE name

\* ((value / totalCount) * 100).toFixed(1), in 1/10
Percentage(value, totalCount) == toFixed(Num(100 * value), totalCount, 1)

\* the values the data.forEach of lines 235-242 tallies
ChartValues(column) == ColumnValues(data, column)

\* the percentage taken of the entries kept, not of the whole column
ChartEntriesOfSlice(top, totalCount) ==
  Bind(top, LAMBDA t :
    MapSeq(t, LAMBDA e, i :
      [name |-> TruncateLabel(e.key),
       value |-> e.count,
       percentage |->
         Percentage(e.count,
                    SumRange([j \in 1..Len(t) |-> Num(t[j].count)],
                             1, Len(t)).v)]))

\* the map of lines 247-254
ChartEntries(top, totalCount) ==
  MapSeq(top, LAMBDA e, i :
    [name |-> TruncateLabel(e.key),
     value |-> e.count,
     percentage |-> Percentage(e.count, totalCount)])

\* lines 244-246
TopEntries(freq, limit) ==
  Slice(SortByCountDesc(ObjectEntries(freq)), 0, limit)

getChartData(column, limit) ==
  IF Len(data) = 0 \/ column = <<>> THEN <<>>
  ELSE Bind(ChartValues(column), LAMBDA values :
         ChartEntries(TopEntries(Tally(values), limit), Len(values)))

(***************************************************************************)
(* getBestChartsForData (lines 440-493).  A chart is its type and its      *)
(* column (pie, bar) or columns (line, comparison); title and description  *)
(* are display text built from them.                                       *)
(***************************************************************************)
PieSpec(col) == [type |-> "pie", column |-> col, columns |-> <<>>]

BarSpec(col) == [type |-> "bar", column |-> col, columns |-> <<>>]

\* the bar charts' limit used for the pie charts
PieEligibleUpTo20(col) ==
  LET uniqueCount == analysis.categorical.val[col].unique
  IN uniqueCount >= 2 /\ uniqueCount <= 20

\* uniqueCount >= 2 && uniqueCount <= 15
PieEligible(col) ==
  LET uniqueCount == analysis.categorical.val[col].unique
  IN uniqueCount >= 2 /\ uniqueCount <= 15

\* uniqueCount >= 2 && uniqueCount <= 20
BarEligible(col) ==
  LET uniqueCount == analysis.categorical.val[col].unique
  IN uniqueCount >= 2 /\ uniqueCount <= 20

\* every numeric column tracked
LineSpecAll(numericCols) ==
  [type |-> "line", column |-> <<>>, columns |-> numericCols]

\* columns: numericCols.slice(0, 3)
LineSpec(numericCols) ==
  [type |-> "line", column |-> <<>>, columns |-> Slice(numericCols, 0, 3)]

\* columns: [numericCols[0], numericCols[1]]
ComparisonSpec(numericCols) ==
  [type |-> "comparison", column |-> <<>>,
   columns |-> <<numericCols[1], numericCols[2]>>]

\* the limit off by one
LimitChartsSeven(charts) == Slice(charts, 0, 7)

\* charts.slice(0, 6)
LimitCharts(charts) == Slice(charts, 0, 6)

getBestChartsForData ==
  LET categoricalCols == ObjectKeys(analysis.categorical)
      numericCols == ObjectKeys(analysis.numeric)
      pies == SelectSeq(categoricalCols, PieEligible)
      bars == SelectSeq(categoricalCols, BarEligible)
      charts ==
        [i \in 1..Len(pies) |-> PieSpec(pies[i])]
          \o [i \in 1..Len(bars) |-> BarSpec(bars[i])]
          \o (IF Len(numericCols) >= 2 THEN <<LineSpec(numericCols)>> ELSE <<>>)
          \o (IF Len(numericCols) >= 2
              THEN <<ComparisonSpec(numericCols)>> ELSE <<>>)
  IN LimitCharts(charts)

(***************************************************************************)
(* getLineChartData, getComparisonData (lines 495-524).  A point is the    *)
(* function from its keys to their values.                                 *)
(***************************************************************************)
IndexKey == <<"i", "n", "d", "e", "x">>

\* !isNaN(val) && val !== null && val !== ""
LineValuePresent(val) == ~isNaN(val) /\ val # Null /\ val # EmptyString

RECURSIVE LinePoint(_, _, _, _)
LinePoint(row, idx, columns, k) ==
  IF k = 0 THEN IndexKey :> Num(idx + 1)
  ELSE LET point == LinePoint(row, idx, columns, k - 1)
           val == row[columns[k]]
       IN IF LineValuePresent(val)
          THEN (columns[k] :> Coerce(val)) @@ point
          ELSE point

LineRows == Slice(data, 0, 50)

MapLine(rows, columns) ==
  MapSeq(rows, LAMBDA row, i : LinePoint(row, i - 1, columns, Len(columns)))

getLineChartData(columns) == MapLine(LineRows, columns)

\* !isNaN(val1) && !isNaN(val2) && val1 !== null && val2 !== null
ComparisonKeep(val1, val2) ==
  ~isNaN(val1) /\ ~isNaN(val2) /\ val1 # Null /\ val2 # Null

\* the index left 0-based
ComparisonIndexZeroBased(idx) == idx

\* index: idx + 1
ComparisonIndex(idx) == idx + 1

\* { [col1]: ..., [col2]: ..., index: idx + 1 }: a later key overrides
ComparisonPoint(row, idx, col1, col2) ==
  LET val1 == row[col1]
      val2 == row[col2]
  IN IF ComparisonKeep(val1, val2)
     THEN [isNull |-> FALSE,
           point |-> (IndexKey :> Num(ComparisonIndex(idx)))
                       @@ (col2 :> Coerce(val2)) @@ (col1 :> Coerce(val1))]
     ELSE [isNull |-> TRUE, point |-> <<>>]

ComparisonRows == Slice(data, 0, 100)

\* .filter(Boolean)
FilterPoints(mapped) ==
  MapSeq(SelectSeq(mapped, LAMBDA p : ~p.isNull), LAMBDA p, i : p.point)

MapComparison(rows, col1, col2) ==
  MapSeq(rows, LAMBDA row, i : ComparisonPoint(row, i - 1, col1, col2))

getComparisonData(col1, col2) ==
  FilterPoints(MapComparison(ComparisonRows, col1, col2))

(***************************************************************************)
(* Inputs: the files a user selects and the results Papa.parse delivers.   *)
(* A parse result is the header fields in file order and the rows, each a  *)
(* function from the fields to cells (Undefined: the row has no such key). *)
(***************************************************************************)
MaxRows == 3

MaxCmpRows == 3

MaxCols == 5

WideRows == 21

PlanRows == 3

LongRows == 101

NoFile == [isNull |-> TRUE, name |-> "", type |-> ""]

CsvFile == [isNull |-> FALSE, name |-> "data.csv", type |-> "text/csv"]

TextFile == [isNull |-> FALSE, name |-> "notes.txt", type |-> "text/plain"]

\* a .csv file the browser reports under another type
SheetFile ==
  [isNull |-> FALSE, name |-> "data.csv", type |-> "application/vnd.ms-excel"]

\* e.target.files[0]
UploadedFiles == {NoFile, CsvFile, TextFile, SheetFile}

ColumnCells ==
  {Null, EmptyString, NumCell(7), NumCell(-2), StrCell(<<"7">>),
   StrCell(<<"4", "2", "a", "b", "c">>), StrCell(<<" ">>)}

\* one column "v" of any cells beside a record number "id"
ColumnResults ==
  UNION {
    { [fields |-> <<<<"v">>, <<"i", "d">>>>,
       rows |-> [i \in 1..n |->
                   (<<"v">> :> col[i]) @@ (<<"i", "d">> :> NumCell(i))]]
      : col \in [1..n -> ColumnCells] }
    : n \in 1..MaxRows }

CmpCells ==
  {Null, Undefined, EmptyString, NumCell(7), StrCell(<<"8">>),
   StrCell(<<"4", "2", "a", "b", "c">>)}

\* two columns of mostly numeric cells: "a" of any of CmpCells, "b" full or
\* with a null in its second row
CmpResults ==
  UNION {
    { [fields |-> <<<<"a">>, <<"b">>>>,
       rows |-> [i \in 1..n |->
                   (<<"a">> :> ca[i])
                     @@ (<<"b">> :> IF gap /\ i = 2 THEN Null ELSE NumCell(3))]]
      : ca \in [1..n -> CmpCells], gap \in BOOLEAN }
    : n \in 1..MaxCmpRows }

\* a generated column: kind 0 holds the numbers 1, 2, ..., kind u > 0 holds
\* strings of u distinct values
WideCell(kind, i) ==
  IF kind = 0 THEN NumCell(i)
  ELSE StrCell(<<"k">> \o Digits((i - 1) % kind))

WideNames ==
  <<<<"b">>, <<"1", "0">>, <<"a">>, <<"2">>, <<"c">>, <<"7">>, <<"d">>>>

WideResult(rows, n, kinds) ==
  [fields |-> SubSeq(WideNames, 1, n),
   rows |-> [i \in 1..rows |->
               [f \in Range(SubSeq(WideNames, 1, n)) |->
                  WideCell(kinds[CHOOSE j \in 1..n : WideNames[j] = f], i)]]]

\* one or two columns with a number of distinct values on either side of
\* each limit of the chart planner (2, 15, 20)
BoundaryResults ==
  UNION { { WideResult(WideRows, n, kinds)
            : kinds \in [1..n -> {0, 1, 2, 15, 16, 20, 21}] }
          : n \in 1..2 }

\* up to MaxCols columns, each numeric, or categorical with 1 or 2 values
PlanResults ==
  UNION { { WideResult(PlanRows, n, kinds) : kinds \in [1..n -> {0, 1, 2}] }
          : n \in 1..MaxCols }

\* two numeric columns longer than the slices of the series builders, the
\* second with a null in every gap-th row
LongResults ==
  { [fields |-> <<<<"a">>, <<"b">>>>,
     rows |-> [i \in 1..n |->
                 (<<"a">> :> NumCell(i))
                   @@ (<<"b">> :> IF gap > 0 /\ i % gap = 0
                                  THEN Null ELSE NumCell(-i))]]
    : n \in {49, 50, 51, 99, 100, LongRows}, gap \in {0, 3} }

\* a file with a header line only, with nothing at all, or with rows of
\* empty cells only
EmptyResults ==
  { [fields |-> <<<<"a">>, <<"b">>>>, rows |-> <<>>],
    [fields |-> <<>>, rows |-> <<>>],
    [fields |-> <<<<"a">>, <<"b">>>>,
     rows |-> <<(<<"a">> :> Null) @@ (<<"b">> :> EmptyString),
                (<<"a">> :> Null) @@ (<<"b">> :> Null)>>] }

ParseResults ==
  ColumnResults \cup CmpResults \cup BoundaryResults \cup PlanResults
    \cup LongResults \cup EmptyResults

(***************************************************************************)
(* The component (lines 29-82, 145-227, 544-551, 1062-1066)                *)
(***************************************************************************)
\* Texts of the insight service and of the messages of the component are
\* sequences of pieces: a piece is one of the characters { } [ ] " : , or a
\* run of other characters.  An insight value is a string, an array of
\* strings, or undefined.
JsString(s) == [t |-> "string", s |-> s, a |-> <<>>]

JsArray(a) == [t |-> "array", s |-> <<>>, a |-> a]

JsUndefined == [t |-> "undefined", s |-> <<>>, a |-> <<>>]

\* aiText.match(/\{[\s\S]*\}/): from the first "{" to the last "}"
MatchBraces(aiText) ==
  LET opening == {i \in 1..Len(aiText) : aiText[i] = "{"}
      closing == {i \in 1..Len(aiText) : aiText[i] = "}"}
      first == CHOOSE i \in opening : \A j \in opening : i <= j
      last == CHOOSE i \in closing : \A j \in closing : i >= j
  IN IF opening # {} /\ closing # {} /\ first < last
     THEN [matched |-> TRUE, block |-> SubSeq(aiText, first, last)]
     ELSE [matched |-> FALSE, block |-> <<>>]

\* JSON.parse on the JSON of the model: an object whose members are strings
\* and arrays of strings, without white space, escapes, numbers or nesting.
\* A parse gives ok, the value and the position after it.
NoValue == [ok |-> FALSE, value |-> JsUndefined, next |-> 0]

NoObject == [ok |-> FALSE, value |-> EmptyObject, next |-> 0]

\* a string literal at toks[i], up to the next quote
ParseString(toks, i) ==
  IF i > Len(toks) \/ toks[i] # "\"" THEN NoValue
  ELSE LET closing == {j \in (i + 1)..Len(toks) : toks[j] = "\""}
           close == CHOOSE j \in closing : \A k \in closing : j <= k
       IN IF closing = {} THEN NoValue
          ELSE [ok |-> TRUE,
                value |-> JsString(SubSeq(toks, i + 1, close - 1)),
                next |-> close + 1]

\* the elements of an array from toks[i] on, after those of acc
RECURSIVE ParseElements(_, _, _)
ParseElements(toks, i, acc) ==
  LET str == ParseString(toks, i)
  IN IF ~str.ok \/ str.next > Len(toks) THEN NoValue
     ELSE IF toks[str.next] = "]"
          THEN [ok |-> TRUE, value |-> JsArray(Append(acc, str.value.s)),
                next |-> str.next + 1]
          ELSE IF toks[str.next] = ","
               THEN ParseElements(toks, str.next + 1,
                                  Append(acc, str.value.s))
               ELSE NoValue

\* a string or an array at toks[i]
ParseValue(toks, i) ==
  IF i > Len(toks) THEN NoValue
  ELSE IF toks[i] = "["
       THEN IF i + 1 <= Len(toks) /\ toks[i + 1] = "]"
            THEN [ok |-> TRUE, value |-> JsArray(<<>>), next |-> i + 2]
            ELSE ParseElements(toks, i + 1, <<>>)
       ELSE ParseString(toks, i)

\* the members of an object from toks[i] on, added to obj
RECURSIVE ParseMembers(_, _, _)
ParseMembers(toks, i, obj) ==
  LET key == ParseString(toks, i)
      val == ParseValue(toks, key.next + 1)
      o == ObjSet(obj, key.value.s, val.value)
  IN IF ~key.ok \/ key.next > Len(toks) \/ toks[key.next] # ":"
     THEN NoObject
     ELSE IF ~val.ok \/ val.next > Len(toks) THEN NoObject
          ELSE IF toks[val.next] = "}"
               THEN [ok |-> TRUE, value |-> o, next |-> val.next + 1]
               ELSE IF toks[val.next] = ","
                    THEN ParseMembers(toks, val.next + 1, o)
                    ELSE NoObject

\* JSON.parse(jsonMatch[0]): the block starts with "{"
JSONparse(block) ==
  LET parsed == IF Len(block) >= 2 /\ block[2] = "}"
                THEN [ok |-> TRUE, value |-> EmptyObject, next |-> 3]
                ELSE ParseMembers(block, 2, EmptyObject)
  IN [throws |-> ~parsed.ok \/ parsed.next # Len(block) + 1,
      value |-> parsed.value]

\* the keys of an insight object the dashboard reads (lines 570-640)
InsightField(o, k) == IF HasKey(o, k) THEN o.val[k] ELSE JsUndefined

InsightsOf(o) ==
  [isNull |-> FALSE,
   dataType |-> InsightField(o, <<"dataType">>),
   summary |-> InsightField(o, <<"summary">>),
   keyInsights |-> InsightField(o, <<"keyInsights">>),
   trends |-> InsightField(o, <<"trends">>),
   recommendations |-> InsightField(o, <<"recommendations">>)]

\* useState(null) of aiInsights
NullInsights ==
  [isNull |-> TRUE, dataType |-> JsUndefined, summary |-> JsUndefined,
   keyInsights |-> JsUndefined, trends |-> JsUndefined,
   recommendations |-> JsUndefined]

\* the text as summary and nothing in the lists
TextFallbackEmptyLists(aiText, note) ==
  [isNull |-> FALSE,
   dataType |-> JsString(<<"Unknown">>),
   summary |-> aiText,
   keyInsights |-> JsArray(<<>>),
   trends |-> JsArray(<<>>),
   recommendations |-> JsArray(<<>>)]

\* lines 198-204 and 207-213: the text as summary under a note
TextFallback(aiText, note) ==
  [isNull |-> FALSE,
   dataType |-> JsString(<<"Unknown">>),
   summary |-> aiText,
   keyInsights |-> JsArray(<<note>>),
   trends |-> JsArray(<<>>),
   recommendations |-> JsArray(<<>>)]

\* lines 217-224
AnalysisUnavailable ==
  [isNull |-> FALSE,
   dataType |-> JsString(<<"Unable to determine">>),
   summary |-> JsString(<<"AI analysis is temporarily unavailable. Showing statistical analysis only.">>),
   keyInsights |->
     JsArray(<<<<"Manual analysis available in statistics section">>>>),
   trends |-> JsArray(<<>>),
   recommendations |-> JsArray(<<>>)]

\* useState initial values, lines 30-39; no upload is in progress
Init ==
  /\ file = NoFile
  /\ data = <<>>
  /\ headers = <<>>
  /\ analysis = NullAnalysis
  /\ activeView = "upload"
  /\ aiInsights = NullInsights
  /\ loading = FALSE
  /\ processingData = FALSE
  /\ hoverInsight = "null"
  /\ insightLoading = FALSE
  /\ pc = "idle"
  /\ requests = <<>>

\* any file at all is taken
HandleFileUploadAnyFile(uploadedFile) ==
  /\ activeView = "upload"
  /\ IF ~uploadedFile.isNull
     THEN /\ file' = uploadedFile
          /\ processingData' = TRUE
          /\ activeView' = "processing"
          /\ pc' = "parsing"
     ELSE UNCHANGED <<file, processingData, activeView, pc>>
  /\ UNCHANGED <<data, headers, analysis, aiInsights, loading, hoverInsight,
                 insightLoading, requests>>

\* handleFileUpload, lines 52-58: the file input is part of the upload view
HandleFileUpload(uploadedFile) ==
  /\ activeView = "upload"
  /\ IF ~uploadedFile.isNull /\ uploadedFile.type = "text/csv"
     THEN /\ file' = uploadedFile
          /\ processingData' = TRUE
          /\ activeView' = "processing"
          /\ pc' = "parsing"
     ELSE UNCHANGED <<file, processingData, activeView, pc>>
  /\ UNCHANGED <<data, headers, analysis, aiInsights, loading, hoverInsight,
                 insightLoading, requests>>

\* Object.values(row).some((val) => val !== null && val !== "")
RowKept(fields, row) ==
  \E i \in 1..Len(fields) :
    /\ row[fields[i]] # Undefined
    /\ row[fields[i]] # Null
    /\ row[fields[i]] # EmptyString

\* the header fields of the file, whatever rows are left
FirstRowKeysOfFields(fields, cleanData) == OwnPropertyKeys(fields)

\* Object.keys(cleanData[0] || {})
FirstRowKeys(fields, cleanData) ==
  IF cleanData = <<>> THEN <<>>
  ELSE OwnPropertyKeys(
         SelectSeq(fields, LAMBDA f : cleanData[1][f] # Undefined))

\* the complete callback up to its first await, lines 60-68
ParseComplete(result) ==
  /\ pc = "parsing"
  /\ LET cleanData ==
           SelectSeq(result.rows, LAMBDA row : RowKept(result.fields, row))
         cols == FirstRowKeys(result.fields, cleanData)
     IN /\ data' = cleanData
        /\ headers' = cols
        /\ analysis' = analyzeData(cleanData, cols)
  /\ pc' = "delay"
  /\ UNCHANGED <<file, activeView, aiInsights, loading, processingData,
                 hoverInsight, insightLoading, requests>>

\* what a request to the insight service comes to: the fetch rejects, the
\* body is not JSON (response.json() rejects), the body has no content[0]
\* (an error body: result.content[0].text throws), content[0] has no text,
\* or content[0].text is a text
FailedResponses(noText) ==
  {[kind |-> k, text |-> noText] : k \in {"rejects", "unreadable", "noContent"}}

\* the texts of the dataset-level responses of the model
AiTexts ==
  {<<>>,
   <<"This looks like sales data.">>,
   <<"Here is the analysis: ", "{", "\"", "dataType", "\"", ":", "\"",
     "sales", "\"", ",", "\"", "summary", "\"", ":", "\"", "fine", "\"", ",",
     "\"", "keyInsights", "\"", ":", "[", "\"", "one", "\"", ",", "\"",
     "two", "\"", "]", ",", "\"", "trends", "\"", ":", "[", "]", ",", "\"",
     "recommendations", "\"", ":", "[", "]", "}">>,
   <<"{", "}">>,
   <<"the set ", "{", "a", ",", " b", "}", " of columns">>,
   <<"}", " and ", "{">>,
   <<"{", "\"", "summary", "\"", ":", "\"", "fine", "\"", "}", " or ", "{",
     "}">>}

InsightResponses ==
  FailedResponses(<<>>) \cup {[kind |-> "noText", text |-> <<>>]}
    \cup {[kind |-> "text", text |-> t] : t \in AiTexts}

\* the texts of the chart-level responses of the model
ChartResponses ==
  FailedResponses("") \cup {[kind |-> "noText", text |-> ""]}
    \cup {[kind |-> "text", text |-> t] : t \in {"insight A", "insight B"}}

\* the await of line 71 ends and generateAIInsights runs up to its fetch
\* (lines 146-185)
DelayElapsed ==
  /\ pc = "delay"
  /\ loading' = TRUE
  /\ pc' = "insight"
  /\ UNCHANGED <<file, data, headers, analysis, activeView, aiInsights,
                 processingData, hoverInsight, insightLoading, requests>>

\* the insights generateAIInsights stores for a response, lines 187-225
StoredInsights(response) ==
  IF response.kind \in {"rejects", "unreadable", "noContent"}
  THEN AnalysisUnavailable
  ELSE IF response.kind = "noText"
       THEN TextFallback(JsUndefined, <<"AI analysis completed">>)
       ELSE LET aiText == response.text
                jsonMatch == MatchBraces(aiText)
                insights == JSONparse(jsonMatch.block)
            IN IF ~jsonMatch.matched
               THEN TextFallback(JsString(aiText),
                                 <<"AI analysis completed - see summary">>)
               ELSE IF insights.throws
                    THEN TextFallback(JsString(aiText),
                                      <<"AI analysis completed">>)
                    ELSE InsightsOf(insights.value)

\* the dashboard shown with the processing flag left on
InsightResponseStillProcessing(response) ==
  /\ pc = "insight"
  /\ aiInsights' = StoredInsights(response)
  /\ loading' = FALSE
  /\ activeView' = "dashboard"
  /\ pc' = "idle"
  /\ UNCHANGED <<file, data, headers, analysis, processingData, hoverInsight,
                 insightLoading, requests>>

\* the fetch of generateAIInsights settles: lines 187-226, then lines 74-75
\* of the complete callback
InsightResponse(response) ==
  /\ pc = "insight"
  /\ aiInsights' = StoredInsights(response)
  /\ loading' = FALSE
  /\ processingData' = FALSE
  /\ activeView' = "dashboard"
  /\ pc' = "idle"
  /\ UNCHANGED <<file, data, headers, analysis, hoverInsight, insightLoading,
                 requests>>

MaxHovers == 2

\* a call of generateChartInsight whose fetch has not settled.  The body of
\* the request (chart type, column, data point) is not kept: the service
\* answers any request with any of ChartResponses.
PendingRequest(chartType, column) == [settled |-> FALSE, result |-> ""]

\* generateChartInsight up to its fetch, lines 385-417; line 392 throws into
\* the catch of line 422 when there is no analysis
generateChartInsight(chartType, column) ==
  IF analysis.isNull
  THEN /\ hoverInsight' = "Unable to generate insight at this moment."
       /\ insightLoading' = FALSE
       /\ UNCHANGED requests
  ELSE /\ insightLoading' = TRUE
       /\ requests' = Append(requests, PendingRequest(chartType, column))
       /\ UNCHANGED hoverInsight

\* handleChartHover, lines 429-438: the mouse moves over the c-th chart of
\* the dashboard, over a data point (active) or not
HandleChartHover(c, active) ==
  /\ activeView = "dashboard"
  /\ c \in 1..Len(getBestChartsForData)
  /\ Len(requests) < MaxHovers
  /\ IF active
     THEN LET chart == getBestChartsForData[c]
          IN generateChartInsight(
               chart.type,
               IF chart.column # <<>> THEN chart.column ELSE chart.columns[1])
     ELSE UNCHANGED <<hoverInsight, insightLoading, requests>>
  /\ UNCHANGED <<file, data, headers, analysis, activeView, aiInsights,
                 loading, processingData, pc>>

\* the text generateChartInsight shows for a response, lines 419-425
InsightText(response) ==
  IF response.kind \in {"rejects", "unreadable", "noContent"}
  THEN "Unable to generate insight at this moment."
  ELSE IF response.kind = "noText" THEN "undefined" ELSE response.text

\* the fetch of the k-th call of generateChartInsight settles, lines 419-426
ChartInsightResponse(k, response) ==
  /\ k \in 1..Len(requests)
  /\ ~requests[k].settled
  /\ hoverInsight' = InsightText(response)
  /\ insightLoading' = FALSE
  /\ requests' = [requests EXCEPT ![k].settled = TRUE,
                                  ![k].result = InsightText(response)]
  /\ UNCHANGED <<file, data, headers, analysis, activeView, aiInsights,
                 loading, processingData, pc>>

\* the Clear Data button of the dashboard, lines 544-551
ClearData ==
  /\ activeView = "dashboard"
  /\ activeView' = "upload"
  /\ file' = NoFile
  /\ data' = <<>>
  /\ analysis' = NullAnalysis
  /\ aiInsights' = NullInsights
  /\ UNCHANGED <<headers, loading, processingData, hoverInsight,
                 insightLoading, pc, requests>>

\* the parse results of the component as a whole: two columns of two rows,
\* each numeric or categorical with 2 values, and the empty ones
FlowResults ==
  { WideResult(2, 2, kinds) : kinds \in [1..2 -> {0, 2}] } \cup EmptyResults

Next ==
  \/ \E uploadedFile \in UploadedFiles : HandleFileUpload(uploadedFile)
  \/ \E result \in FlowResults : ParseComplete(result)
  \/ DelayElapsed
  \/ \E response \in InsightResponses : InsightResponse(response)
  \/ \E c \in 1..MaxCols, active \in BOOLEAN : HandleChartHover(c, active)
  \/ \E k \in 1..MaxHovers, response \in ChartResponses :
       ChartInsightResponse(k, response)
  \/ ClearData

Spec == Init /\ [][Next]_vars

\* the upload flow up to the profile of every parse result
NextData ==
  \/ \E uploadedFile \in UploadedFiles : HandleFileUpload(uploadedFile)
  \/ \E result \in ParseResults : ParseComplete(result)

SpecData == Init /\ [][NextData]_vars

(***************************************************************************)
(* What the claims speak of, stated over the rows and the column names     *)
(* without the operators above                                             *)
(***************************************************************************)
Loaded == ~analysis.isNull

CellIsEmpty(c) ==
  c.t = "null" \/ c.t = "undefined" \/ (c.t = "string" /\ Len(c.s) = 0)

\* the whole string, white space around it apart, is one signed integer
IsNumberLiteral(s) ==
  \E lo, hi \in 1..Len(s) :
    /\ lo <= hi
    /\ \A i \in 1..Len(s) : (i < lo \/ i > hi) => s[i] = " "
    /\ \/ \A i \in lo..hi : IsDigit(s[i])
       \/ /\ lo < hi
          /\ s[lo] \in {"-", "+"}
          /\ \A i \in (lo + 1)..hi : IsDigit(s[i])

CellIsNumeric(c) ==
  c.t = "number" \/ (c.t = "string" /\ IsNumberLiteral(c.s))

NonEmptyRows(h) == {i \in 1..Len(data) : ~CellIsEmpty(data[i][h])}

NumericRows(h) == {i \in 1..Len(data) : CellIsNumeric(data[i][h])}

IsNumericCol(h) == HasKey(analysis.numeric, h)

IsCategoricalCol(h) == HasKey(analysis.categorical, h)

ColumnSet == Range(headers)

Plan == getBestChartsForData

ChartsOfType(type) == {i \in 1..Len(Plan) : Plan[i].type = type}

\* the series of the i-th chart, a comparison chart
ComparisonSeries(i) ==
  getComparisonData(Plan[i].columns[1], Plan[i].columns[2])

\* the rows getComparisonData looks at
FirstHundred == 1..Min2(100, Len(data))

\* C2: a comparison series has at most 100 points and at most one per row,
\* every point carries two numbers, and a row with a null, missing, empty
\* or non-numeric cell in either column gives no point
C2_ComparisonPoints ==
  \A c \in ChartsOfType("comparison") :
    LET col1 == Plan[c].columns[1]
        col2 == Plan[c].columns[2]
        series == ComparisonSeries(c)
    IN /\ Len(series) <= 100
       /\ Len(series) <= Len(data)
       /\ \A p \in 1..Len(series) :
            ~series[p][col1].nan /\ ~series[p][col2].nan
       /\ Len(series) =
            Cardinality({i \in FirstHundred :
                           /\ CellIsNumeric(data[i][col1])
                           /\ CellIsNumeric(data[i][col2])})

\* C3 as claimed: the k-th emitted point has index k
C3_SequentialIndex ==
  \A c \in ChartsOfType("comparison") :
    \A k \in 1..Len(ComparisonSeries(c)) :
      ComparisonSeries(c)[k][IndexKey] = Num(k)

\* the cell passes the test of line 514: not null, and a number once coerced
\* (a number, a numeric string, or a string of white space only)
CoercesToNumber(c) ==
  \/ c.t = "number"
  \/ /\ c.t = "string"
     /\ IsNumberLiteral(c.s) \/ \A i \in 1..Len(c.s) : c.s[i] = " "

\* C3, amended: the index of a point is the record number of its row, the
\* 1-based position of the row among the first 100 rows of the data set, so
\* the indices increase and skip the rows that were dropped
C3_RecordNumberIndex ==
  \A c \in ChartsOfType("comparison") :
    LET series == ComparisonSeries(c)
        index(k) == series[k][IndexKey]
    IN /\ \A k \in 1..Len(series) : ~index(k).nan
       /\ \A k \in 2..Len(series) : index(k - 1).v < index(k).v
       /\ {index(k).v : k \in 1..Len(series)} =
            {i \in FirstHundred :
               /\ CoercesToNumber(data[i][Plan[c].columns[1]])
               /\ CoercesToNumber(data[i][Plan[c].columns[2]])}

\* the second row was dropped, the third became the second point
C3_Witness ==
  \E c \in ChartsOfType("comparison") :
    /\ Len(ComparisonSeries(c)) >= 2
    /\ ComparisonSeries(c)[1][IndexKey] = Num(1)
    /\ ComparisonSeries(c)[2][IndexKey] = Num(3)

NumericColumnsInOrder == SelectSeq(headers, IsNumericCol)

\* C4: at most 6 charts, and no line or comparison chart when fewer than 2
\* columns are numeric
C4_PlanBounded ==
  /\ Len(Plan) <= 6
  /\ Len(NumericColumnsInOrder) < 2 =>
       ChartsOfType("line") \cup ChartsOfType("comparison") = {}

UniqueCount(h) == analysis.categorical.val[h].unique

PieColumns ==
  SelectSeq(headers, LAMBDA h : IsCategoricalCol(h) /\ UniqueCount(h) \in 2..15)

BarColumns ==
  SelectSeq(headers, LAMBDA h : IsCategoricalCol(h) /\ UniqueCount(h) \in 2..20)

\* four categorical columns of 2 values each ask for 8 charts
C4_Witness ==
  /\ Len(PieColumns) = 4
  /\ Len(Plan) = 6

\* the plan before it is cut: type and column of each chart
ExpectedPlan ==
  [i \in 1..Len(PieColumns) |-> <<"pie", PieColumns[i]>>]
    \o [i \in 1..Len(BarColumns) |-> <<"bar", BarColumns[i]>>]
    \o (IF Len(NumericColumnsInOrder) >= 2
        THEN <<<<"line", <<>>>>, <<"comparison", <<>>>>>> ELSE <<>>)

\* C5: the plan is the first 6 of: a pie chart per categorical column of 2
\* to 15 values, a bar chart per categorical column of 2 to 20 values, a
\* line chart and a comparison chart if 2 columns or more are numeric
C5_PlanOrder ==
  /\ Len(Plan) = Min2(6, Len(ExpectedPlan))
  /\ \A i \in 1..Len(Plan) : <<Plan[i].type, Plan[i].column>> = ExpectedPlan[i]

\* three pie and three bar charts fill the plan; the line chart and the
\* comparison chart of the two numeric columns are cut
C5_Witness ==
  /\ Len(PieColumns) = 3
  /\ Len(BarColumns) = 3
  /\ Len(NumericColumnsInOrder) = 2
  /\ Len(Plan) = 6
  /\ Plan[6].type = "bar"

\* C6: the line chart tracks the first 3 numeric columns, the comparison
\* chart the first 2, in the order of the column names given to analyzeData
C6_TrackedColumns ==
  /\ \A c \in ChartsOfType("line") :
       Plan[c].columns =
         SubSeq(NumericColumnsInOrder, 1, Min2(3, Len(NumericColumnsInOrder)))
  /\ \A c \in ChartsOfType("comparison") :
       Plan[c].columns = SubSeq(NumericColumnsInOrder, 1, 2)

\* four numeric columns, two of them with integer names that the parsed
\* rows list first, and both charts in the plan
C6_Witness ==
  /\ Len(NumericColumnsInOrder) = 4
  /\ headers[1] = <<"2">>
  /\ headers[2] = <<"1", "0">>
  /\ ChartsOfType("line") # {}
  /\ ChartsOfType("comparison") # {}

(***************************************************************************)
(* Frequencies of a column, counted over the rows                          *)
(***************************************************************************)
\* the keys of column h: the strings of its non-empty cells
KeysOf(h) == {String(data[i][h]) : i \in NonEmptyRows(h)}

RowsOfKey(h, k) == {i \in NonEmptyRows(h) : String(data[i][h]) = k}

CountOf(h, k) == Cardinality(RowsOfKey(h, k))

\* the row of the first occurrence of key k
FirstRow(h, k) ==
  CHOOSE i \in RowsOfKey(h, k) : \A j \in RowsOfKey(h, k) : i <= j

\* key k1 comes before k2: a higher count, or the same count and an earlier
\* first occurrence
RanksBefore(h, k1, k2) ==
  \/ CountOf(h, k1) > CountOf(h, k2)
  \/ CountOf(h, k1) = CountOf(h, k2) /\ FirstRow(h, k1) < FirstRow(h, k2)

\* C7: mostCommon has the highest count of the distribution and, among the
\* keys of that count, the earliest first occurrence
C7_MostCommon ==
  Loaded =>
    \A h \in ColumnSet :
      (IsCategoricalCol(h) /\ KeysOf(h) # {}) =>
        LET mostCommon == analysis.categorical.val[h].mostCommon
        IN /\ mostCommon.defined
           /\ mostCommon.key \in KeysOf(h)
           /\ mostCommon.count = CountOf(h, mostCommon.key)
           /\ \A k \in KeysOf(h) \ {mostCommon.key} :
                RanksBefore(h, mostCommon.key, k)

\* the limits that cut a chart of the data set, and the one that does not
ChartLimits == {limit \in {1, 2, 8, 10} : limit < Len(data)} \cup {Len(data)}

\* entries are the first limit keys of column h in the order of RanksBefore
RankedEntries(h, limit, entries) ==
  /\ Len(entries) = Min2(limit, Cardinality(KeysOf(h)))
  /\ \A p \in 1..Len(entries) :
       /\ entries[p].name \in KeysOf(h)
       /\ entries[p].value = CountOf(h, entries[p].name)
       /\ Cardinality({k \in KeysOf(h) :
                         RanksBefore(h, k, entries[p].name)}) = p - 1

\* C8: getChartData gives the keys of the column by descending count, keys
\* of equal count by first occurrence, cut to the first limit entries
C8_ChartDataOrder ==
  Loaded =>
    \A h \in ColumnSet \ {<<>>} : \A limit \in ChartLimits :
      IsCategoricalCol(h) =>
        \A entries \in {getChartData(h, limit)} :
          RankedEntries(h, limit, entries)

Abs(x) == IF x < 0 THEN -x ELSE x

\* each percentage (in 1/10) is 100 * value / total to the nearest tenth
NearestTenths(entries, total) ==
  \A p \in 1..Len(entries) :
    /\ ~entries[p].percentage.nan
    /\ 2 * Abs(entries[p].percentage.v * total - 1000 * entries[p].value)
         <= total

\* the percentages (in 1/10) add up to 100 within 0.05 for each entry
SumsToHundred(entries) ==
  2 * Abs(SumRange([p \in 1..Len(entries) |-> entries[p].percentage],
                   1, Len(entries)).v - 1000)
    <= Len(entries)

\* C9: every percentage is 100 * count / (non-empty cells of the column)
\* to the nearest tenth, whatever the limit, and over the whole distribution
\* the percentages are within 0.05 per entry of 100
C9_Percentages ==
  Loaded =>
    \A h \in ColumnSet \ {<<>>} : \A limit \in ChartLimits :
      \A entries \in {getChartData(h, limit)} :
        /\ NearestTenths(entries, Cardinality(NonEmptyRows(h)))
        /\ (NonEmptyRows(h) # {} /\ limit >= Cardinality(KeysOf(h))) =>
             SumsToHundred(entries)

\* a column of three keys cut to two entries: 33.3 + 33.3, less than 100
C9_Witness ==
  /\ Loaded
  /\ \E h \in ColumnSet :
       /\ Cardinality(KeysOf(h)) = 3
       /\ Len(data) = 3
       /\ Len(getChartData(h, 2)) = 2
       /\ getChartData(h, 2)[1].percentage = Num(333)
       /\ getChartData(h, 2)[2].percentage = Num(333)
       /\ getChartData(h, 3)[3].percentage = Num(333)

ColumnAlone(h) == MapSeq(data, LAMBDA row, i : (h :> row[h]))

\* the profile of column h in a profile
ProfileOf(profile, h) ==
  IF HasKey(profile.numeric, h)
  THEN <<"numeric", profile.numeric.val[h]>>
  ELSE IF HasKey(profile.categorical, h)
       THEN <<"categorical", profile.categorical.val[h]>>
       ELSE <<"none">>

\* C11: every column has a profile in exactly one of the numeric and the
\* categorical map, the maps hold nothing else, totalColumns is the number of
\* profiles, and the profile of a column is the one analyzeData gives that
\* column alone
C11_OneProfilePerColumn ==
  Loaded =>
    /\ \A h \in ColumnSet : IsNumericCol(h) # IsCategoricalCol(h)
    /\ Range(analysis.numeric.keys) \cup Range(analysis.categorical.keys)
         = ColumnSet
    /\ analysis.totalColumns =
         Len(analysis.numeric.keys) + Len(analysis.categorical.keys)
    /\ \A h \in ColumnSet :
         \A alone \in {analyzeData(ColumnAlone(h), <<h>>)} :
           ProfileOf(alone, h) = ProfileOf(analysis, h)

\* a numeric column beside a categorical one
C11_Witness ==
  /\ Loaded
  /\ analysis.totalColumns = 2
  /\ \E h1, h2 \in ColumnSet : IsNumericCol(h1) /\ IsCategoricalCol(h2)

(***************************************************************************)
(* The series of the line chart                                            *)
(***************************************************************************)
\* the series of the i-th chart, a line chart
LineSeries(i) == getLineChartData(Plan[i].columns)

\* C12: a line series has one point per row of the first 50, with the
\* 1-based row position as index; a point carries a tracked column's number
\* when the cell of the row is numeric and has no key of the column otherwise
C12_LinePoints ==
  \A c \in ChartsOfType("line") :
    \A series \in {LineSeries(c)} :
      /\ Len(series) = Min2(50, Len(data))
      /\ \A k \in 1..Len(series) :
           /\ series[k][IndexKey] = Num(k)
           /\ \A col \in Range(Plan[c].columns) :
                IF CellIsNumeric(data[k][col])
                THEN /\ col \in DOMAIN series[k]
                     /\ series[k][col] = ToNumber(data[k][col])
                ELSE col \notin DOMAIN series[k]

(***************************************************************************)
(* The dataset-level insight                                               *)
(***************************************************************************)
\* the responses that are a failure of the insight service: no response, or
\* one without a text at content[0]
UnusableResponses == {r \in InsightResponses : r.kind # "text"}

\* C13: when the insight request fails, the step that settles it stores the
\* 'analysis unavailable' placeholder, leaves the analysis as it was and
\* takes the upload flow from the processing view to the dashboard
C13_FailureDegrades ==
  [][\A response \in UnusableResponses :
       InsightResponse(response) =>
         /\ aiInsights' = AnalysisUnavailable
         /\ ~analysis.isNull /\ analysis' = analysis
         /\ activeView = "processing" /\ activeView' = "dashboard"]_vars

\* some "{" of the text comes before some "}"
HasBraceBlock(text) ==
  \E i, j \in 1..Len(text) : i < j /\ text[i] = "{" /\ text[j] = "}"

\* the texts with no structured block: no block in braces, or a block that
\* is not JSON
Unstructured(text) ==
  ~HasBraceBlock(text) \/ JSONparse(MatchBraces(text).block).throws

UnstructuredResponses ==
  {r \in InsightResponses : r.kind = "text" /\ Unstructured(r.text)}

\* C14 as claimed: a text without a structured block is stored as the
\* summary of an insight object whose three lists are empty
C14_SummaryAndEmptyLists ==
  [][\A response \in UnstructuredResponses :
       InsightResponse(response) =>
         /\ aiInsights'.summary = JsString(response.text)
         /\ aiInsights'.keyInsights = JsArray(<<>>)
         /\ aiInsights'.trends = JsArray(<<>>)
         /\ aiInsights'.recommendations = JsArray(<<>>)]_vars

\* C14, amended: a text without a structured block is stored as the summary
\* of an insight object of dataType "Unknown" whose trends and
\* recommendations are empty and whose keyInsights holds one fixed note
C14_SummaryUnderNote ==
  [][\A response \in UnstructuredResponses :
       InsightResponse(response) =>
         /\ aiInsights'.summary = JsString(response.text)
         /\ aiInsights'.dataType = JsString(<<"Unknown">>)
         /\ aiInsights'.keyInsights =
              JsArray(<<IF HasBraceBlock(response.text)
                        THEN <<"AI analysis completed">>
                        ELSE <<"AI analysis completed - see summary">>>>)
         /\ aiInsights'.trends = JsArray(<<>>)
         /\ aiInsights'.recommendations = JsArray(<<>>)]_vars

\* the dashboard after a response of plain text
C14_Witness ==
  /\ activeView = "dashboard"
  /\ aiInsights.summary = JsString(<<"This looks like sales data.">>)
  /\ aiInsights.keyInsights =
       JsArray(<<<<"AI analysis completed - see summary">>>>)
  /\ aiInsights.trends = JsArray(<<>>)

(***************************************************************************)
(* The empty data set                                                      *)
(***************************************************************************)
\* C15: an upload that yields zero rows has the profile of 0 rows and 0
\* columns with no numeric and no categorical column, and no chart is planned
C15_EmptyDataset ==
  (Loaded /\ Len(data) = 0) =>
    /\ analysis.totalRows = 0
    /\ analysis.totalColumns = 0
    /\ ObjectKeys(analysis.numeric) = <<>>
    /\ ObjectKeys(analysis.categorical) = <<>>
    /\ headers = <<>>
    /\ getBestChartsForData = <<>>

\* the profile of an upload without rows
C15_Witness ==
  /\ Loaded
  /\ ~file.isNull
  /\ Len(data) = 0
  /\ analysis.totalColumns = 0

(***************************************************************************)
(* The median, by counting                                                 *)
(***************************************************************************)
\* the number in the numeric cell of row i of column h
NumberAt(h, i) == ToNumber(data[i][h]).v

\* the k-th smallest number of column h: fewer than k numbers are below it
\* and at least k are not above it
KthSmallest(h, k) ==
  CHOOSE v \in {NumberAt(h, i) : i \in NumericRows(h)} :
    /\ Cardinality({i \in NumericRows(h) : NumberAt(h, i) < v}) < k
    /\ Cardinality({i \in NumericRows(h) : NumberAt(h, i) <= v}) >= k

\* C16: the median of a NUMERIC column (in 1/100) is the central one of its
\* sorted numbers when they are odd in number, and the average of the two
\* central ones when they are even in number
C16_Median ==
  Loaded =>
    \A h \in ColumnSet :
      IsNumericCol(h) =>
        \A n \in {Cardinality(NumericRows(h))} :
          analysis.numeric.val[h].median =
            IF n % 2 = 1
            THEN Num(100 * KthSmallest(h, (n + 1) \div 2))
            ELSE Num(50 * (KthSmallest(h, n \div 2)
                             + KthSmallest(h, n \div 2 + 1)))

\* the numbers 1 to 50: the median is 25.5
C16_Witness ==
  /\ Loaded
  /\ \E h \in ColumnSet :
       /\ IsNumericCol(h)
       /\ analysis.numeric.val[h].count = 50
       /\ analysis.numeric.val[h].median = Num(2550)

(***************************************************************************)
(* Hover requests                                                          *)
(***************************************************************************)
InFlight == {k \in 1..Len(requests) : ~requests[k].settled}

\* C17: once every request of generateChartInsight has settled, hoverInsight
\* holds the result of the request issued last
C17_LatestRequestWins ==
  (requests # <<>> /\ InFlight = {}) =>
    hoverInsight = requests[Len(requests)].result

\* C18: insightLoading is true exactly when a request of
\* generateChartInsight is in flight
C18_LoadingIffInFlight ==
  insightLoading <=> InFlight # {}

\* C19: in the upload view (before any upload, or after Clear Data and any
\* response that came after it) file, data, headers, analysis, aiInsights
\* and hoverInsight have their initial values
C19_ClearedState ==
  activeView = "upload" =>
    /\ file = NoFile
    /\ data = <<>>
    /\ headers = <<>>
    /\ analysis = NullAnalysis
    /\ aiInsights = NullInsights
    /\ hoverInsight = "null"

(***************************************************************************)
(* The views                                                               *)
(***************************************************************************)
\* C20: the dashboard is shown only with an analysis and insights, and with
\* loading and processingData false; processingData is true exactly in the
\* processing view
C20_ViewInvariant ==
  /\ activeView = "dashboard" =>
       /\ ~analysis.isNull
       /\ ~aiInsights.isNull
       /\ ~loading
       /\ ~processingData
  /\ processingData <=> activeView = "processing"

\* the dashboard with the service's placeholder insights and a hover request
\* in flight
C20_Witness ==
  /\ activeView = "dashboard"
  /\ ~file.isNull
  /\ ~analysis.isNull
  /\ aiInsights = AnalysisUnavailable
  /\ ~processingData
  /\ insightLoading
  /\ InFlight # {}

(***************************************************************************)
(* Selections that are not taken                                           *)
(***************************************************************************)
RejectedFiles ==
  {uploadedFile \in UploadedFiles :
     uploadedFile.isNull \/ uploadedFile.type # "text/csv"}

\* C21: a file selection with no file, or with a file whose type is not
\* "text/csv", changes no state variable and starts no parse (pc) and no
\* request (loading, requests)
C21_RejectedSelection ==
  [][\A uploadedFile \in RejectedFiles :
       HandleFileUpload(uploadedFile) =>
         /\ UNCHANGED <<file, data, headers, analysis, aiInsights, activeView,
                        processingData, loading>>
         /\ UNCHANGED <<hoverInsight, insightLoading, pc, requests>>]_vars

\* the upload view after Clear Data, with the headers of the cleared dataset
\* and a settled hover request, where each such selection can be made and
\* every step it can take leaves the state as it is
C21_Witness ==
  /\ activeView = "upload"
  /\ headers # <<>>
  /\ requests # <<>>
  /\ \A uploadedFile \in RejectedFiles :
       /\ ENABLED HandleFileUpload(uploadedFile)
       /\ ~ENABLED (HandleFileUpload(uploadedFile) /\ vars' # vars)
  /\ Cardinality(RejectedFiles) = 3

====
